---- MODULE Spec2Model ----
(***************************************************************************)
(* A model of the copy engine of dvdcopy (src/src/dvdcopy.cc): DVDCopy's   *)
(* copyFile, copy, secondPass, registerBadSectors, readBadSectors and      *)
(* findFile, together with the bad sectors file and the target directory   *)
(* they act on.  Two consecutive processes run on the same target          *)
(* directory; either may be killed at any step.                            *)
(***************************************************************************)
EXTENDS Integers, Sequences, FiniteSets, TLC

(***************************************************************************)
(* Program constant and model bounds.                                      *)
(***************************************************************************)
BUF_BLOCK_SIZE == 128

\* Size in blocks of the stream of the information file of the catalog.
IfoSize == 2
\* Size in blocks of the stream of the title set of the catalog: one full
\* chunk of BUF_BLOCK_SIZE blocks and a last chunk of three blocks.
VobSize == 131
\* secondPass is followed for as long as badSectorsList is shorter than this
\* (the list is unbounded in the program).
MaxList == 3

\* The placeholder block that skipSectors leaves in the output.
Hole == -1

(***************************************************************************)
(* The catalog (DVDCopy::files), as DVDReader::listFiles would hand it     *)
(* over: dup is the index of the descriptor this one duplicates, 0 for     *)
(* NULL.                                                                   *)
(***************************************************************************)
files ==
  << [title |-> 0, domain |-> 0, number |-> 0, dup |-> 0],
     [title |-> 0, domain |-> 1, number |-> 0, dup |-> 1],
     [title |-> 1, domain |-> 3, number |-> 1, dup |-> 0],
     [title |-> 1, domain |-> 3, number |-> 2, dup |-> 0],
     [title |-> 2, domain |-> 3, number |-> 2, dup |-> 3] >>

Files == 1..Len(files)

\* A descriptor of another disc, whose record an old bad sectors file may
\* still hold.
StaleFile == [title |-> 7, domain |-> 3, number |-> 1, dup |-> 0]

\* DVDFile::fileSize: the size in blocks of the stream opened for a
\* descriptor.
FileSize(d) == IF files[d].domain = 3 THEN VobSize ELSE IfoSize

\* The patterns of unreadable blocks of the title set stream that a process
\* may meet: none, one block of the first chunk, the last block, the two
\* blocks around the chunk boundary, and the whole last chunk.
BadOptions ==
  { {}, {2}, {VobSize - 1}, {BUF_BLOCK_SIZE - 1, BUF_BLOCK_SIZE},
    BUF_BLOCK_SIZE..(VobSize - 1) }

Min(a, b) == IF a < b THEN a ELSE b
Max(a, b) == IF a > b THEN a ELSE b

(***************************************************************************)
(* Text: a line of the bad sectors file is a sequence of characters.       *)
(***************************************************************************)
Digit == {"0", "1", "2", "3", "4", "5", "6", "7", "8", "9"}

DigitChar(d) == <<"0", "1", "2", "3", "4", "5", "6", "7", "8", "9">>[d + 1]

DigitValue(c) == CHOOSE d \in 0..9 : DigitChar(d) = c

\* printf's %d of a non-negative int.
RECURSIVE Decimal(_)
Decimal(n) ==
  IF n < 10 THEN <<DigitChar(n)>>
  ELSE Decimal(n \div 10) \o <<DigitChar(n % 10)>>

\* DVDFileData::fileName: a name derived from the identity of the file.
fileName(dat) ==
  <<"V">> \o Decimal(dat.title) \o <<"_">> \o Decimal(dat.number)
    \o <<".">> \o Decimal(dat.domain)

\* A slip in the format of registerBadSectors: the count is printed without
\* its parentheses, "%s: %d,%d,%d  %d %d\n".
FormatLineNoParentheses(dat, beg, size) ==
  fileName(dat) \o <<":", " ">> \o Decimal(dat.title) \o <<",">>
    \o Decimal(dat.domain) \o <<",">> \o Decimal(dat.number)
    \o <<" ", " ">> \o Decimal(beg) \o <<" ">> \o Decimal(size) \o <<"NL">>

\* The line registerBadSectors prints: "%s: %d,%d,%d  %d (%d)\n".
FormatLine(dat, beg, size) ==
  fileName(dat) \o <<":", " ">> \o Decimal(dat.title) \o <<",">>
    \o Decimal(dat.domain) \o <<",">> \o Decimal(dat.number)
    \o <<" ", " ">> \o Decimal(beg) \o <<" ", "(">> \o Decimal(size)
    \o <<")", "NL">>

\* The first index from i on at which s holds no character of C (Len(s) + 1
\* when the run reaches the end of s).
SpanEnd(s, i, C) ==
  CHOOSE j \in i..(Len(s) + 1) :
    /\ \A k \in i..(j - 1) : s[k] \in C
    /\ (j = Len(s) + 1 \/ s[j] \notin C)

\* A buffer as the C string regexec and atoi see: up to the first NUL.
CStr(buf) ==
  LET nuls == {k \in 1..Len(buf) : buf[k] = "NUL"}
  IN  IF nuls = {} THEN buf
      ELSE SubSeq(buf, 1, (CHOOSE k \in nuls : \A m \in nuls : k <= m) - 1)

\* The pattern of readBadSectors after "[^:]+:", item by item: "blanks" is
\* " *", "num" is "([0-9]+)", "num2" is "([0-9]+) *([0-9]+)", and any other
\* item is that character.
Pattern ==
  <<"blanks", "num", ",", "num", ",", "num2", "blanks", "(", "num", ")">>

NoMatch == [ok |-> FALSE, so |-> <<>>, eo |-> <<>>]

\* The match of the items of Pattern from item k on against s from index p
\* on: so[i] is the first index of group i and eo[i] the index after its
\* last (1-based).  In "num2", when no second number follows the blanks
\* after the first run of digits, that run is split: the third group takes
\* all its digits but the last.
RECURSIVE Walk(_, _, _, _, _)
Walk(s, p, k, so, eo) ==
  IF k > Len(Pattern) THEN [ok |-> TRUE, so |-> so, eo |-> eo]
  ELSE IF Pattern[k] = "blanks"
  THEN Walk(s, SpanEnd(s, p, {" "}), k + 1, so, eo)
  ELSE IF Pattern[k] = "num"
  THEN LET e == SpanEnd(s, p, Digit)
       IN  IF e > p THEN Walk(s, e, k + 1, Append(so, p), Append(eo, e))
           ELSE NoMatch
  ELSE IF Pattern[k] = "num2"
  THEN LET d == SpanEnd(s, p, Digit)
           b == SpanEnd(s, d, {" "})
           f == SpanEnd(s, b, Digit)
       IN  IF d > p /\ b > d /\ f > b
           THEN Walk(s, f, k + 1, so \o <<p, b>>, eo \o <<d, f>>)
           ELSE IF d - p >= 2
           THEN Walk(s, d, k + 1, so \o <<p, d - 1>>, eo \o <<d - 1, d>>)
           ELSE NoMatch
  ELSE IF p <= Len(s) /\ s[p] = Pattern[k]
       THEN Walk(s, p + 1, k + 1, so, eo)
       ELSE NoMatch

\* The match with the colon of "[^:]+:" at index q of s.
MatchAt(s, q) == Walk(s, q + 1, 1, <<>>, <<>>)

\* regexec of the line pattern of readBadSectors (not anchored): "[^:]+"
\* needs a character other than a colon right before the colon, and the
\* leftmost match is the one at the first colon for which the rest matches.
Regexec(buf) ==
  LET s == CStr(buf)
      colons == {q \in 2..Len(s) :
                   s[q] = ":" /\ s[q - 1] # ":" /\ MatchAt(s, q).ok}
  IN  IF colons = {} THEN NoMatch
      ELSE MatchAt(s, CHOOSE q \in colons : \A r \in colons : q <= r)

\* "Make all substrings NULL-terminated": buffer[matches[i].rm_eo] = 0.
NulTerminate(buf, m) ==
  [k \in 1..Len(buf) |->
     IF \E i \in 1..5 : m.eo[i] = k THEN "NUL" ELSE buf[k]]

RECURSIVE DecimalValue(_)
DecimalValue(s) ==
  IF s = <<>> THEN 0
  ELSE 10 * DecimalValue(SubSeq(s, 1, Len(s) - 1)) + DigitValue(s[Len(s)])

\* atoi(buffer + so) for a buffer holding digits from so on.
Atoi(buf, so) == DecimalValue(SubSeq(buf, so, SpanEnd(buf, so, Digit) - 1))

\* DVDCopy::findFile, with indices from 1 and 0 for "not found".
findFile(title, domain, number) ==
  LET hits == {i \in Files : /\ files[i].title = title
                             /\ files[i].domain = domain
                             /\ files[i].number = number}
  IN  IF hits = {} THEN 0 ELSE CHOOSE i \in hits : \A j \in hits : i <= j

\* One turn of the loop of readBadSectors on the line held in buffer: the
\* buffer as the turn leaves it and the records it appends to the list.
ParseLine(buf) ==
  LET m == Regexec(buf)
      t == NulTerminate(buf, m)
      idx == findFile(Atoi(t, m.so[1]), Atoi(t, m.so[2]), Atoi(t, m.so[3]))
  IN  IF ~m.ok THEN [buffer |-> buf, matched |-> FALSE, found |-> <<>>]
      ELSE [buffer |-> t, matched |-> TRUE,
            found |-> IF idx = 0 THEN <<>>
                      ELSE <<[file |-> idx, start |-> Atoi(t, m.so[4]),
                              number |-> Atoi(t, m.so[5])]>>]

(***************************************************************************)
(* State.                                                                  *)
(*   On disk, kept from one process to the next:                           *)
(*     fs         the inode each destination path names (0: no such file); *)
(*                the path of a descriptor is its index in the catalog     *)
(*     data       the blocks of each inode: the number of the source block *)
(*                a block was copied from, or Hole                         *)
(*     ledger     the bad sectors file: whether it exists, and its lines   *)
(*   The disc and the drive:                                               *)
(*     unopenable the descriptors whose stream DVDFile::openFile cannot    *)
(*                open                                                     *)
(*     bad        the blocks of the title set stream whose read fails      *)
(*                during the running process                               *)
(*   The process (DVDCopy and the call stack):                             *)
(*     later      FALSE in the first process, TRUE in the one after it     *)
(*     mode, pc   the entry point that runs and the position in it         *)
(*     badSectors the FILE * of the bad sectors file: "NULL", or the mode  *)
(*                it was opened in                                         *)
(*     rbs        the locals of readBadSectors: lines consumed, feof,      *)
(*                buffer                                                   *)
(*     badSectorsList, i, totalMissing, cf (the frame of copyFile)         *)
(*   History, read by the properties only:                                 *)
(*     obs        what the running process has done                        *)
(*     atCall     the disk as it was when copyFile was last called         *)
(*     written    the records whose lines were appended to the bad sectors *)
(*                file, by these processes or before them                  *)
(***************************************************************************)
VARIABLES fs, data, ledger, unopenable, bad, later, mode, pc, badSectors,
          rbs, badSectorsList, i, totalMissing, cf, obs, atCall, written

disk == <<fs, data, ledger>>
vars == <<fs, data, ledger, unopenable, bad, later, mode, pc, badSectors,
          rbs, badSectorsList, i, totalMissing, cf, obs, atCall, written>>

NoFrame ==
  [dat |-> 0, firstBlock |-> 0, blockNumber |-> -1, readNumber |-> -1,
   size |-> 0, blk |-> 0, nb |-> 0, read |-> 0, skipped |-> 0, sector |-> 0]

\* obs: of the copyFile call that runs or ran last, dat (its descriptor),
\* reads (the source blocks it asked for), writes (the output blocks it
\* wrote or skipped), holes (how many blocks it skipped), short (whether a
\* read of it returned fewer blocks than asked for), startSize (the size of
\* its output when it was called) and list0 (the length of badSectorsList
\* when it was called); of the process, values (what its copyFile calls
\* returned), opened (the descriptors whose stream was
\* opened), called (the descriptors passed to copyFile), failed (the chunks
\* whose read failed), last (how the last copyFile call that ended did so),
\* ledger0 (the lines of the bad sectors file when the process started) and
\* loaded (the length of the list readBadSectors built).
NoObs ==
  [dat |-> 0, reads |-> {}, writes |-> {}, holes |-> 0, short |-> FALSE,
   startSize |-> 0, list0 |-> 0, values |-> <<>>, opened |-> {},
   called |-> <<>>, failed |-> <<>>,
   last |-> [dat |-> 0, how |-> "none", value |-> 0],
   ledger0 |-> <<>>, loaded |-> 0]

NoRbs == [pos |-> 0, eof |-> FALSE, buffer |-> <<>>]

Snapshot == [fs |-> fs, data |-> data, ledger |-> ledger]

\* The destination path of a descriptor: targetDirectory + fileName().
Path(d) == d

\* DVDOutFile::fileSize: the blocks the output of a descriptor holds.
OutFileSize(d) == IF fs[Path(d)] = 0 THEN 0 ELSE Len(data[fs[Path(d)]])

\* The contents of a file after n blocks are put at block offset pos.
PutBlocks(content, pos, blocks) ==
  [k \in 1..Max(Len(content), pos + Len(blocks)) |->
     IF k > pos /\ k <= pos + Len(blocks) THEN blocks[k - pos]
     ELSE IF k <= Len(content) THEN content[k] ELSE Hole]

\* DVDOutFile writing blocks at its position: the file is created on the
\* first write.
OutPut(d, pos, blocks) ==
  LET ino == IF fs[Path(d)] = 0 THEN Path(d) ELSE fs[Path(d)]
  IN  /\ fs' = [fs EXCEPT ![Path(d)] = ino]
      /\ data' = [data EXCEPT ![ino] = PutBlocks(data[ino], pos, blocks)]

\* link(2): the new name is made only if the old one exists and the new one
\* does not; copyFile ignores the result.
Link(source, target) ==
  IF fs[source] # 0 /\ fs[target] = 0
  THEN [fs EXCEPT ![target] = fs[source]]
  ELSE fs

\* The blocks of a stream from which a read may return fewer blocks than it
\* was asked for: the first block of each of the two chunks of a first pass.
ShortAt == {0, BUF_BLOCK_SIZE}

\* The numbers of blocks a read of nb readable blocks from blk may return:
\* all of them and, from a block of ShortAt, all but the last, or none.
BlocksRead(d, blk, nb) ==
  IF blk \in ShortAt THEN {nb, nb - 1, 0} ELSE {nb}

\* DVDFile::readBlocks of nb blocks from blk, as the set of values the call
\* may return: negative when a block of the range cannot be read, else the
\* number of blocks read.
ReadBlocks(d, blk, nb) ==
  IF \E b \in blk..(blk + nb - 1) : b \in bad[d] THEN {-1}
  ELSE BlocksRead(d, blk, nb)

\* A line that is not one of registerBadSectors: the count has lost its
\* parentheses.
MalformedLine ==
  fileName(files[3]) \o <<":", " ">> \o Decimal(files[3].title) \o <<",">>
    \o Decimal(files[3].domain) \o <<",">> \o Decimal(files[3].number)
    \o <<" ", " ">> \o Decimal(0) \o <<" ">> \o Decimal(BUF_BLOCK_SIZE)
    \o <<"NL">>

\* The bad sectors files a first process may find: none, an empty one, one
\* left by the copy of another disc, and that one with a malformed line
\* before its record; recs are the records registerBadSectors had written.
LedgerOptions ==
  LET stale == FormatLine(StaleFile, 0, BUF_BLOCK_SIZE)
      rec == [file |-> 0, start |-> 0, number |-> BUF_BLOCK_SIZE]
  IN  { [exists |-> FALSE, lines |-> <<>>, recs |-> <<>>],
        [exists |-> TRUE, lines |-> <<>>, recs |-> <<>>],
        [exists |-> TRUE, lines |-> <<stale>>, recs |-> <<rec>>],
        [exists |-> TRUE, lines |-> <<MalformedLine, stale>>,
         recs |-> <<rec>>] }

(***************************************************************************)
(* Initial states: an empty target directory, or one that already holds a  *)
(* file of its own at the path of the duplicate descriptor 2, and one of   *)
(* the bad sectors files of LedgerOptions.                                 *)
(***************************************************************************)
Init ==
  /\ fs \in {[p \in Files |-> 0], [p \in Files |-> IF p = 2 THEN 2 ELSE 0]}
  /\ data = [p \in Files |-> <<>>]
  /\ \E l \in LedgerOptions :
       /\ ledger = [exists |-> l.exists, lines |-> l.lines]
       /\ written = l.recs
  /\ unopenable \in {{}, {1}}
  /\ bad = [d \in Files |-> {}]
  /\ later = FALSE
  /\ mode = "none"
  /\ pc = "start"
  /\ badSectors = "NULL"
  /\ rbs = NoRbs
  /\ badSectorsList = <<>>
  /\ i = 0
  /\ totalMissing = 0
  /\ cf = NoFrame
  /\ obs = [NoObs EXCEPT !.ledger0 = ledger.lines]
  /\ atCall = Snapshot

(***************************************************************************)
(* Process start and end.                                                  *)
(***************************************************************************)
\* DVDCopy::setup: the catalog is listed and the target directories made.
Setup(m) ==
  /\ pc = "start"
  /\ mode' = m
  /\ \E b \in BadOptions : bad' = [d \in Files |-> IF d = 3 THEN b ELSE {}]
  /\ UNCHANGED <<unopenable, later, disk, written, badSectorsList, i,
                 totalMissing, cf, obs, atCall>>

\* DVDCopy::copy up to its loop.
StartCopy ==
  /\ Setup("copy")
  /\ pc' = "copy_loop"
  /\ UNCHANGED <<badSectors, rbs>>

\* DVDCopy::secondPass up to the loop of readBadSectors:
\* openBadSectorsFile("r"), and the return when there is no file.
StartSecondPass ==
  /\ Setup("secondPass")
  /\ IF ledger.exists
     THEN badSectors' = "r" /\ pc' = "rbs_loop"
     ELSE badSectors' = "NULL" /\ pc' = "sp_loop"
  /\ UNCHANGED rbs

\* The process is killed from outside.
Kill ==
  /\ pc \notin {"start", "done", "aborted", "killed"}
  /\ pc' = "killed"
  /\ UNCHANGED <<fs, data, ledger, unopenable, bad, later, mode, badSectors,
                 rbs, badSectorsList, i, totalMissing, cf, obs, atCall,
                 written>>

\* The first process has ended; the next one starts with the disk it left.
Restart ==
  /\ pc \in {"done", "aborted", "killed"}
  /\ ~later
  /\ later' = TRUE
  /\ mode' = "none"
  /\ pc' = "start"
  /\ badSectors' = "NULL"
  /\ rbs' = NoRbs
  /\ badSectorsList' = <<>>
  /\ i' = 0
  /\ totalMissing' = 0
  /\ cf' = NoFrame
  /\ obs' = [NoObs EXCEPT !.ledger0 = ledger.lines]
  /\ atCall' = Snapshot
  /\ UNCHANGED <<disk, unopenable, bad, written>>

(***************************************************************************)
(* DVDCopy::copyFile.                                                      *)
(***************************************************************************)
\* copyFile is entered with the given arguments.
Call(d, firstBlock, blockNumber, readNumber) ==
  /\ pc' = "cf_entry"
  /\ cf' = [NoFrame EXCEPT !.dat = d, !.firstBlock = firstBlock,
                           !.blockNumber = blockNumber,
                           !.readNumber = IF readNumber < 0
                                          THEN BUF_BLOCK_SIZE
                                          ELSE readNumber]
  /\ obs' = [obs EXCEPT !.dat = d, !.reads = {}, !.writes = {},
                        !.holes = 0, !.short = FALSE,
                        !.startSize = OutFileSize(d),
                        !.list0 = Len(badSectorsList),
                        !.called = Append(@, d)]
  /\ atCall' = Snapshot

\* copyFile returns v to its caller, which goes on: copy with the next
\* descriptor, secondPass by adding v to totalMissing.  (secondPass also
\* prints bs.number through a reference into badSectorsList that a
\* push_back of registerBadSectors may have left dangling; what is printed
\* is not part of the state.)
Return(o, v, how) ==
  /\ obs' = [o EXCEPT !.last = [dat |-> cf.dat, how |-> how, value |-> v],
                      !.values = Append(@, v)]
  /\ cf' = NoFrame
  /\ i' = i + 1
  /\ IF mode = "secondPass"
     THEN pc' = "sp_loop" /\ totalMissing' = totalMissing + v
     ELSE pc' = "copy_loop" /\ UNCHANGED totalMissing

\* copyFile throws std::runtime_error; neither copy nor secondPass catches
\* it.
Throw ==
  /\ obs' = [obs EXCEPT !.last = [dat |-> cf.dat, how |-> "throw", value |-> 0]]
  /\ pc' = "aborted"
  /\ UNCHANGED <<cf, i, totalMissing>>

\* A slip in the duplicate branch: the inode numbers are not compared.
DupCheckSourceOnly(source, target) ==
  IF fs[source] = 0 THEN "throw" ELSE "linked"

\* The outcome of the duplicate branch for a target that exists: "throw"
\* when the source is missing or has another inode, else "linked".
DupCheck(source, target) ==
  IF fs[source] = 0 THEN "throw"
  ELSE IF fs[source] # fs[target] THEN "throw"
  ELSE "linked"

\* "First, looking for duplicates": the descriptor has a dup.
CopyFileDup ==
  /\ pc = "cf_entry"
  /\ files[cf.dat].dup # 0
  /\ LET source == Path(files[cf.dat].dup)
         target == Path(cf.dat)
     IN  IF fs[target] = 0
         THEN /\ fs' = Link(source, target)
              /\ Return(obs, 0, "hardlinking")
         ELSE /\ UNCHANGED fs
              /\ IF DupCheck(source, target) = "throw"
                 THEN Throw
                 ELSE Return(obs, 0, "linked")
  /\ UNCHANGED <<data, ledger, unopenable, bad, later, mode, badSectors, rbs,
                 badSectorsList, atCall, written>>

\* A slip in the test of the number: part 2 is taken for a file to copy.
IsPartAboveTwo(dat) == dat.number > 2

\* Whether copyFile skips a descriptor that has no dup as a part already
\* copied along with number 1.
IsPart(dat) == dat.number > 1

CopyFilePart ==
  /\ pc = "cf_entry"
  /\ files[cf.dat].dup = 0
  /\ IsPart(files[cf.dat])
  /\ Return(obs, 0, "part")
  /\ UNCHANGED <<disk, unopenable, bad, later, mode, badSectors, rbs,
                 badSectorsList, atCall, written>>

\* DVDFile::openFile returns NULL: "Skipping file (not found)".
CopyFileNotFound ==
  /\ pc = "cf_entry"
  /\ files[cf.dat].dup = 0
  /\ ~IsPart(files[cf.dat])
  /\ cf.dat \in unopenable
  /\ Return(obs, 0, "notfound")
  /\ UNCHANGED <<disk, unopenable, bad, later, mode, badSectors, rbs,
                 badSectorsList, atCall, written>>

\* current_size: the size of the output, or firstBlock when it is positive.
CurrentSize(d, firstBlock) ==
  IF firstBlock > 0 THEN firstBlock ELSE OutFileSize(d)

\* A slip in the test of current_size: only an output longer than the
\* stream counts as fully read.
AlreadyReadIfLonger(current_size, size) == current_size > size

\* "File already fully read: not reading again".
AlreadyRead(current_size, size) == current_size = size

CopyFileAlreadyRead ==
  /\ pc = "cf_entry"
  /\ files[cf.dat].dup = 0
  /\ ~IsPart(files[cf.dat])
  /\ cf.dat \notin unopenable
  /\ AlreadyRead(CurrentSize(cf.dat, cf.firstBlock), FileSize(cf.dat))
  /\ Return([obs EXCEPT !.opened = @ \cup {cf.dat}], 0, "complete")
  /\ UNCHANGED <<disk, unopenable, bad, later, mode, badSectors, rbs,
                 badSectorsList, atCall, written>>

\* A slip in the start of the loop: the cursor is set to current_size, and
\* the output is left where it was opened.
FirstBlkAtCurrentSize(current_size) == current_size

\* The block the copy loop starts from.
FirstBlk(current_size) == 0

\* The stream is open and the file is not fully read: the loop is entered
\* with size = file->fileSize() and blk = 0.
CopyFileBegin ==
  /\ pc = "cf_entry"
  /\ files[cf.dat].dup = 0
  /\ ~IsPart(files[cf.dat])
  /\ cf.dat \notin unopenable
  /\ ~AlreadyRead(CurrentSize(cf.dat, cf.firstBlock), FileSize(cf.dat))
  /\ cf' = [cf EXCEPT !.size = FileSize(cf.dat),
                      !.blk = FirstBlk(CurrentSize(cf.dat, cf.firstBlock)),
                      !.skipped = 0, !.sector = 0]
  /\ obs' = [obs EXCEPT !.opened = @ \cup {cf.dat}]
  /\ pc' = "cf_loop"
  /\ UNCHANGED <<disk, unopenable, bad, later, mode, badSectors, rbs,
                 badSectorsList, i, totalMissing, atCall, written>>

\* A slip in the choice of nb: the last chunk is not cut to what is left.
ChunkSizeUncut(size, readNumber) == readNumber

\* The number of blocks of the next chunk.
ChunkSize(size, readNumber) == IF size > readNumber THEN readNumber ELSE size

\* A read error taken for a fatal one: the run ends on it.
OnReadFatal(read) == IF read < 0 THEN "aborted" ELSE "cf_write"

\* "if(read < 0)": where the turn goes on after the read.
OnRead(read) == IF read < 0 THEN "cf_error" ELSE "cf_write"

\* One turn of the loop up to the test of read: nb is set and the chunk is
\* read.
LoopRead ==
  /\ pc = "cf_loop"
  /\ cf.size > 0
  /\ LET nb == ChunkSize(cf.size, cf.readNumber)
     IN  \E read \in ReadBlocks(cf.dat, cf.blk, nb) :
           /\ cf' = [cf EXCEPT !.nb = nb, !.read = read]
           /\ obs' = [obs EXCEPT
                        !.reads = @ \cup (cf.blk..(cf.blk + nb - 1)),
                        !.short = @ \/ (0 <= read /\ read < nb),
                        !.failed = IF read < 0
                                   THEN Append(@, [file |-> cf.dat,
                                                   start |-> cf.blk,
                                                   number |-> nb])
                                   ELSE @]
           /\ pc' = OnRead(read)
  /\ UNCHANGED <<disk, unopenable, bad, later, mode, badSectors, rbs,
                 badSectorsList, i, totalMissing, atCall, written>>

\* read < 0: outfile.skipSectors(nb).
SkipSectors ==
  /\ pc = "cf_error"
  /\ OutPut(cf.dat, cf.sector, [k \in 1..cf.nb |-> Hole])
  /\ cf' = [cf EXCEPT !.sector = @ + cf.nb]
  /\ obs' = [obs EXCEPT !.writes = @ \cup (cf.sector..(cf.sector + cf.nb - 1)),
                        !.holes = @ + cf.nb]
  /\ pc' = "cf_register"
  /\ UNCHANGED <<ledger, unopenable, bad, later, mode, badSectors, rbs,
                 badSectorsList, i, totalMissing, atCall, written>>

\* openBadSectorsFile(mode): fopen only when badSectors is NULL.
OpenBadSectorsFile(m) == IF badSectors = "NULL" THEN m ELSE badSectors

\* Whether fprintf and fflush on a stream opened in mode m put the line in
\* the file: a stream opened for reading takes no output.
Writable(m) == m = "a"

\* A slip after a failed read: "read = nb" is left out, and read keeps the
\* negative value readBlocks returned.
ReadAfterSkipUnset(nb) == -1

\* "read = nb": what read holds after a failed chunk was skipped.
ReadAfterSkip(nb) == nb

\* A slip in the count of skipped sectors: chunks are counted, not blocks.
SkippedPerChunk(skipped, nb) == skipped + 1

\* "skipped += nb".
Skipped(skipped, nb) == skipped + nb

\* DVDCopy::registerBadSectors, then the rest of the turn of the loop:
\* read = nb, skipped += nb, size -= read, blk += read.
RegisterBadSectors ==
  /\ pc = "cf_register"
  /\ LET rec == [file |-> cf.dat, start |-> cf.blk, number |-> cf.nb]
         m == OpenBadSectorsFile("a")
     IN  /\ badSectors' = m
         /\ IF Writable(m)
            THEN /\ ledger' = [exists |-> TRUE,
                               lines |-> Append(ledger.lines,
                                           FormatLine(files[cf.dat], cf.blk,
                                                      cf.nb))]
                 /\ written' = Append(written, rec)
            ELSE UNCHANGED <<ledger, written>>
         /\ badSectorsList' = Append(badSectorsList, rec)
  /\ LET read == ReadAfterSkip(cf.nb)
     IN  cf' = [cf EXCEPT !.read = read,
                          !.skipped = Skipped(@, cf.nb),
                          !.size = @ - read, !.blk = @ + read]
  /\ pc' = "cf_loop"
  /\ UNCHANGED <<fs, data, unopenable, bad, later, mode, rbs, i,
                 totalMissing, obs, atCall>>

\* read >= 0: outfile.writeSectors(readBuffer, read), then size -= read and
\* blk += read.
WriteSectors ==
  /\ pc = "cf_write"
  /\ OutPut(cf.dat, cf.sector, [k \in 1..cf.read |-> cf.blk + k - 1])
  /\ cf' = [cf EXCEPT !.sector = @ + cf.read, !.size = @ - cf.read,
                      !.blk = @ + cf.read]
  /\ obs' = [obs EXCEPT
               !.writes = @ \cup (cf.sector..(cf.sector + cf.read - 1))]
  /\ pc' = "cf_loop"
  /\ UNCHANGED <<ledger, unopenable, bad, later, mode, badSectors, rbs,
                 badSectorsList, i, totalMissing, atCall, written>>

\* The loop ends: outfile.closeFile() and return skipped.
CopyFileReturn ==
  /\ pc = "cf_loop"
  /\ cf.size <= 0
  /\ Return(obs, cf.skipped, "copied")
  /\ UNCHANGED <<disk, unopenable, bad, later, mode, badSectors, rbs,
                 badSectorsList, atCall, written>>

(***************************************************************************)
(* DVDCopy::copy, DVDCopy::readBadSectors and DVDCopy::secondPass.         *)
(***************************************************************************)
\* The loop of copy: copyFile(*i) for the next descriptor, or the end.
CopyNext ==
  /\ pc = "copy_loop"
  /\ IF i < Len(files)
     THEN Call(i + 1, 0, -1, -1)
     ELSE pc' = "done" /\ UNCHANGED <<cf, obs, atCall>>
  /\ UNCHANGED <<disk, unopenable, bad, later, mode, badSectors, rbs,
                 badSectorsList, i, totalMissing, written>>

\* The buffers an uninitialised char buffer[1024] may hold when the first
\* fgets reads nothing.
Indeterminate == {<<"NL">>, FormatLine(files[1], 0, 1)}

\* A slip in the loop of readBadSectors: a line that does not match ends the
\* loading.
AfterLineFatal(matched) == IF matched THEN "rbs_loop" ELSE "sp_loop"

\* Where readBadSectors goes on after the line in the buffer, matched or
\* not: to the test of its loop.
AfterLine(matched) == "rbs_loop"

\* One turn of "while(! feof(badSectors))": fgets reads the next line, or
\* hits the end of the file, sets feof and leaves the buffer as it was; then
\* the buffer is parsed.
ReadBadSectorsLine ==
  /\ pc = "rbs_loop"
  /\ ~rbs.eof
  /\ \E buf \in IF rbs.pos < Len(ledger.lines) THEN {ledger.lines[rbs.pos + 1]}
                ELSE IF rbs.pos = 0 THEN Indeterminate
                ELSE {rbs.buffer} :
       LET p == ParseLine(buf)
       IN  /\ rbs' = [pos |-> Min(rbs.pos + 1, Len(ledger.lines)),
                      eof |-> rbs.pos >= Len(ledger.lines),
                      buffer |-> p.buffer]
           /\ badSectorsList' = badSectorsList \o p.found
           /\ pc' = AfterLine(p.matched)
  /\ UNCHANGED <<disk, unopenable, bad, later, mode, badSectors, i,
                 totalMissing, cf, obs, atCall, written>>

\* feof: readBadSectors returns and secondPass starts its loop.
ReadBadSectorsEnd ==
  /\ pc = "rbs_loop"
  /\ rbs.eof
  /\ pc' = "sp_loop"
  /\ obs' = [obs EXCEPT !.loaded = Len(badSectorsList)]
  /\ UNCHANGED <<disk, unopenable, bad, later, mode, badSectors, rbs,
                 badSectorsList, i, totalMissing, cf, atCall, written>>

\* The loop of secondPass: copyFile(bs.file, bs.start, bs.number, 1) for
\* badSectorsList[i] while i < badSectorsList.size(), then the grand total.
SecondPassNext ==
  /\ pc = "sp_loop"
  /\ IF i < Len(badSectorsList)
     THEN LET bs == badSectorsList[i + 1]
          IN  /\ Len(badSectorsList) < MaxList
              /\ Call(bs.file, bs.start, bs.number, 1)
     ELSE pc' = "done" /\ UNCHANGED <<cf, obs, atCall>>
  /\ UNCHANGED <<disk, unopenable, bad, later, mode, badSectors, rbs,
                 badSectorsList, i, totalMissing, written>>

Next ==
  \/ StartCopy
  \/ StartSecondPass
  \/ Kill
  \/ Restart
  \/ CopyNext
  \/ CopyFileDup
  \/ CopyFilePart
  \/ CopyFileNotFound
  \/ CopyFileAlreadyRead
  \/ CopyFileBegin
  \/ LoopRead
  \/ SkipSectors
  \/ RegisterBadSectors
  \/ WriteSectors
  \/ CopyFileReturn
  \/ ReadBadSectorsLine
  \/ ReadBadSectorsEnd
  \/ SecondPassNext

Spec == Init /\ [][Next]_vars

\* A step of copy or of copyFile.
Progress ==
  \/ CopyNext \/ CopyFileDup \/ CopyFilePart \/ CopyFileNotFound
  \/ CopyFileAlreadyRead \/ CopyFileBegin \/ LoopRead \/ SkipSectors
  \/ RegisterBadSectors \/ WriteSectors \/ CopyFileReturn

\* The program is sequential and every call copyFile makes blocks and
\* returns: a copy or a copyFile that is not killed takes its next step.
LiveSpec == Spec /\ WF_vars(Progress)

(***************************************************************************)
(* Properties.                                                             *)
(***************************************************************************)
\* copyFile has been called and has not returned.
InCopyFile ==
  pc \in {"cf_entry", "cf_loop", "cf_error", "cf_register", "cf_write"}

\* copyFile has just returned to the loop that called it.
Returned == pc \in {"copy_loop", "sp_loop"} /\ obs.dat # 0

\* The lines registerBadSectors prints for a sequence of records.
LinesOf(recs) ==
  [k \in 1..Len(recs) |->
     FormatLine(files[recs[k].file], recs[k].start, recs[k].number)]

\* The output of descriptor d holds the source blocks lo .. hi - 1 at their
\* own offsets.
Filled(d, lo, hi) ==
  /\ fs[Path(d)] # 0
  /\ \A b \in lo..(hi - 1) :
       b < Len(data[fs[Path(d)]]) /\ data[fs[Path(d)]][b + 1] = b

\* C1 (as claimed).  Resume correctness: a copyFile call of copy (no start
\* override) on a file whose output holds K of its N blocks, 0 < K < N,
\* never reads or writes a block below K, and when it returns it has read
\* and written exactly the blocks K .. N - 1.
C1_ResumeFromOutputSize ==
  (/\ mode = "copy"
   /\ obs.dat # 0
   /\ files[obs.dat].dup = 0
   /\ 0 < obs.startSize
   /\ obs.startSize < FileSize(obs.dat))
  => /\ \A b \in obs.reads \cup obs.writes : b >= obs.startSize
     /\ (Returned /\ obs.last.how = "copied")
          => /\ obs.reads = obs.startSize..(FileSize(obs.dat) - 1)
             /\ obs.writes = obs.startSize..(FileSize(obs.dat) - 1)

\* The case of C2: secondPass has loaded the one record (F, B, N), N > 2, and
\* of the stream of F only block B + 2 cannot be read.
C2_Case ==
  /\ mode = "secondPass"
  /\ (InCopyFile \/ pc \in {"sp_loop", "done"})
  /\ obs.loaded = 1
  /\ badSectorsList[1].number > 2
  /\ bad[badSectorsList[1].file] = {badSectorsList[1].start + 2}

\* C2 (as claimed).  Repair convergence: in that case, once the record has
\* been retried the bad sectors file holds one more line, that of
\* (F, B + 2, 1), and the output of F holds the source blocks of [B, B + 2)
\* and of [B + 3, B + N) at their offsets; the grand total never exceeds 1
\* and is 1 when secondPass ends.
C2_RepairConvergence ==
  C2_Case =>
    LET F == badSectorsList[1].file
        B == badSectorsList[1].start
        N == badSectorsList[1].number
    IN  /\ totalMissing <= 1
        /\ (pc \in {"sp_loop", "done"} /\ i >= 1)
             => /\ ledger.lines = Append(obs.ledger0, FormatLine(files[F], B + 2, 1))
                /\ Filled(F, B, B + 2)
                /\ Filled(F, B + 3, B + N)
        /\ pc = "done" => totalMissing = 1

\* The case of C3: a copyFile call of copy (chunks of BUF_BLOCK_SIZE blocks)
\* on a file with an empty output has returned after its loop, the
\* unreadable blocks of the stream were one range [B, B + N), and the reads
\* of the other blocks succeeded, each with all the blocks it asked for.
C3_Case ==
  /\ mode = "copy"
  /\ Returned
  /\ obs.last.how = "copied"
  /\ obs.startSize = 0
  /\ bad[obs.dat] # {}
  /\ ~obs.short

\* The lines the call that runs or ran last has appended to the bad sectors
\* file.
AppendedByCall ==
  SubSeq(ledger.lines, Len(atCall.ledger.lines) + 1, Len(ledger.lines))

\* C3 (as claimed).  Failure accounting: in that case the output holds the
\* total number of blocks of the file and the call has appended precisely
\* the one line of (file, B, N).
C3_OneRecordPerBadRange ==
  C3_Case =>
    LET B == CHOOSE b \in bad[obs.dat] : \A c \in bad[obs.dat] : b <= c
        N == Cardinality(bad[obs.dat])
    IN  /\ OutFileSize(obs.dat) = FileSize(obs.dat)
        /\ AppendedByCall = <<FormatLine(files[obs.dat], B, N)>>

\* The chunks [c, c + n) of a first pass over a stream of size blocks, from
\* chunk start c on, that hold a block of the set b, as records of file d.
RECURSIVE BadChunks(_, _, _, _)
BadChunks(d, size, c, b) ==
  IF c >= size THEN <<>>
  ELSE LET n == Min(BUF_BLOCK_SIZE, size - c)
       IN  (IF (c..(c + n - 1)) \cap b # {}
            THEN <<[file |-> d, start |-> c, number |-> n]>>
            ELSE <<>>) \o BadChunks(d, size, c + n, b)

\* C3 (amended).  In that case the output holds the total number of blocks
\* of the file, the bad sectors file keeps the lines it had, and the call
\* has appended one line (file, c, n) for each chunk [c, c + n) of the loop
\* that holds an unreadable block, in order: the one line (file, B, N)
\* exactly when [B, B + N) is one whole chunk.
C3_OneRecordPerBadChunk ==
  C3_Case =>
    /\ OutFileSize(obs.dat) = FileSize(obs.dat)
    /\ SubSeq(ledger.lines, 1, Len(atCall.ledger.lines)) = atCall.ledger.lines
    /\ AppendedByCall =
         LinesOf(BadChunks(obs.dat, FileSize(obs.dat), 0, bad[obs.dat]))

\* C3 witness: a first pass has returned for a file whose unreadable blocks
\* are the last of the first chunk and the first of the second, with the two
\* lines of those chunks appended.
C3_Witness ==
  /\ C3_Case
  /\ bad[obs.dat] = {BUF_BLOCK_SIZE - 1, BUF_BLOCK_SIZE}
  /\ AppendedByCall =
       <<FormatLine(files[obs.dat], 0, BUF_BLOCK_SIZE),
         FormatLine(files[obs.dat], BUF_BLOCK_SIZE, VobSize - BUF_BLOCK_SIZE)>>

\* C4 (as claimed).  Duplicate linking: when copyFile returns normally for a
\* descriptor with a dup, its destination and that of the dup exist and name
\* the same inode (so a call with the destination of the dup missing does
\* not return normally), and a call made in that state changes nothing.
C4_DuplicateLinked ==
  (Returned /\ files[obs.dat].dup # 0)
  => /\ fs[Path(obs.dat)] # 0
     /\ fs[Path(files[obs.dat].dup)] # 0
     /\ fs[Path(obs.dat)] = fs[Path(files[obs.dat].dup)]
     /\ (atCall.fs[Path(obs.dat)] # 0 => Snapshot = atCall)

\* C5.  Idempotence: a copyFile call of copy for a descriptor without dup
\* whose output held as many blocks as its stream when the call was made
\* reads no source block, writes or skips no output block, and leaves the
\* files and the bad sectors file as they were.
C5_CompleteFileUntouched ==
  (/\ mode = "copy"
   /\ obs.dat # 0
   /\ files[obs.dat].dup = 0
   /\ obs.startSize = FileSize(obs.dat))
  => /\ obs.reads = {}
     /\ obs.writes = {}
     /\ Snapshot = atCall

\* C5 witness: the later process is a copy, and its call for the title set,
\* whose output the first process left complete, has returned.
C5_Witness ==
  /\ later
  /\ mode = "copy"
  /\ Returned
  /\ obs.dat = 3
  /\ obs.startSize = VobSize
  /\ obs.last.how = "complete"

\* The records of a sequence whose descriptor is in the catalog.
InCatalog(rec) == rec.file \in Files
Resolvable(recs) == SelectSeq(recs, InCatalog)

\* C6.  Ledger round trip: when readBadSectors has returned, the list holds
\* the records whose lines registerBadSectors has written to the bad sectors
\* file and whose descriptor is in the catalog, each once and in the order
\* written, and nothing else.  (registerBadSectors writes a line as soon as
\* it has made the file: the file it leaves is absent or holds a line.)
C6_LedgerRoundTrip ==
  (/\ mode = "secondPass"
   /\ pc = "sp_loop"
   /\ i = 0
   /\ ~(ledger.exists /\ ledger.lines = <<>>))
  => badSectorsList = Resolvable(written)

\* C6 witness: the later process has loaded the two records the first one
\* wrote, and dropped the record of another disc written before them.
C6_Witness ==
  /\ later
  /\ mode = "secondPass"
  /\ pc = "sp_loop"
  /\ i = 0
  /\ Len(written) = 3
  /\ written[1].file \notin Files
  /\ Len(badSectorsList) = 2
  /\ badSectorsList[2].start = BUF_BLOCK_SIZE

\* C7 (as claimed).  Sequence coalescing: a copyFile call for a descriptor
\* with a number above 1 opens no stream, reads no block and leaves the
\* files and the bad sectors file as they were; the descriptors whose stream
\* is opened all have number 1.
C7_OnlyNumberOneOpened ==
  /\ (obs.dat # 0 /\ files[obs.dat].number > 1)
       => /\ obs.dat \notin obs.opened
          /\ obs.reads = {}
          /\ Snapshot = atCall
  /\ \A d \in obs.opened : files[d].number = 1

\* C7 (amended).  A copyFile call for a descriptor with a number above 1
\* opens no stream, reads no block and leaves the bad sectors file as it
\* was, and leaves the files as they were unless the descriptor has a dup
\* (then it may make the hard link and changes nothing else); the
\* descriptors whose stream is opened all have a number of at most 1 and no
\* dup.
C7_PartsNeverOpened ==
  /\ (obs.dat # 0 /\ files[obs.dat].number > 1)
       => /\ obs.dat \notin obs.opened
          /\ obs.reads = {}
          /\ obs.writes = {}
          /\ ledger = atCall.ledger
          /\ data = atCall.data
          /\ \A p \in Files : p # Path(obs.dat) => fs[p] = atCall.fs[p]
          /\ files[obs.dat].dup = 0 => fs = atCall.fs
  /\ \A d \in obs.opened : files[d].number <= 1 /\ files[d].dup = 0

\* C7 witness: the call for the second part of the title set has returned,
\* after the streams of the descriptors before it were opened.
C7_Witness ==
  /\ Returned
  /\ obs.dat = 4
  /\ obs.last.how = "part"
  /\ obs.opened = {1, 3}

\* What readBadSectors would load from the lines of a bad sectors file, from
\* line k on.
RECURSIVE WouldLoad(_, _)
WouldLoad(lines, k) ==
  IF k > Len(lines) THEN <<>>
  ELSE ParseLine(lines[k]).found \o WouldLoad(lines, k + 1)

\* C8 (as claimed).  Ledger accumulation across repairs: in secondPass,
\* between two reads and at the end, the bad sectors file on disk is such
\* that a readBadSectors of a new process would load the records loaded by
\* this one and then the chunks that failed again in this one.
C8_RepairAppendsToLedger ==
  (mode = "secondPass" /\ pc \in {"cf_loop", "sp_loop", "done"})
  => WouldLoad(ledger.lines, 1) =
       SubSeq(badSectorsList, 1, obs.loaded) \o obs.failed

\* C9 (as claimed).  Write-ahead ordering: whenever copyFile is about to read
\* the next chunk or to return, and after it has returned, the lines of all
\* the chunks whose read has failed in this process are in the bad sectors
\* file, after the lines it held when the process started.
C9_FailedChunksOnDisk ==
  (pc \in {"cf_loop", "copy_loop", "sp_loop", "done"})
  => ledger.lines = obs.ledger0 \o LinesOf(obs.failed)

\* C10.  Block read failures never stop the run: in copy, the run is only
\* ever ended by the throw of the duplicate branch and never waits; a
\* copyFile call that entered its loop has read every block after each of
\* its failed chunks when it returns; and a run that ends normally has
\* passed every descriptor of the catalog to copyFile, in order.
C10_ReadFailuresAbsorbed ==
  mode = "copy" =>
    /\ pc = "aborted"
         => /\ obs.last.how = "throw"
            /\ obs.last.dat = obs.dat
            /\ files[obs.dat].dup # 0
    /\ (InCopyFile \/ pc = "copy_loop") => ENABLED Progress
    /\ (Returned /\ obs.last.how = "copied")
         => \A k \in 1..Len(obs.failed) :
              obs.failed[k].file = obs.dat
                => \A b \in (obs.failed[k].start + obs.failed[k].number)
                              ..(FileSize(obs.dat) - 1) : b \in obs.reads
    /\ pc = "done" => obs.called = [k \in 1..Len(files) |-> k]

\* C10 witness: a copy has ended normally after the read of the first of
\* the two chunks of the title set failed.
C10_Witness ==
  /\ mode = "copy"
  /\ pc = "done"
  /\ Len(obs.failed) = 1
  /\ obs.failed[1].start = 0
  /\ obs.called = <<1, 2, 3, 4, 5>>

InRepairOfLoaded ==
  /\ mode = "secondPass"
  /\ obs.dat # 0
  /\ Len(obs.called) <= obs.loaded

\* The record of that call.
RepairRecord == badSectorsList[Len(obs.called)]

\* C12 (as claimed).  Repair reads stay in the recorded range: in a copyFile
\* call of secondPass for a loaded record (F, start, count), every read asks
\* for one block, and every block of F the call reads or writes is in
\* [start, start + count).
C12_RepairReadsInRange ==
  InRepairOfLoaded =>
    /\ pc \in {"cf_error", "cf_register", "cf_write"} => cf.nb = 1
    /\ \A b \in obs.reads \cup obs.writes :
         /\ RepairRecord.start <= b
         /\ b < RepairRecord.start + RepairRecord.number

\* C13 (as claimed).  Repair attempts every recorded block: when a copyFile
\* call of secondPass for a loaded record (F, start, count) has returned
\* after the stream of F was opened, it has asked for every block of
\* [start, start + count).
C13_RepairReadsEveryBlock ==
  (/\ InRepairOfLoaded
   /\ Returned
   /\ obs.last.how \in {"complete", "copied"})
  => \A b \in RepairRecord.start
               ..(RepairRecord.start + RepairRecord.number - 1) :
       b \in obs.reads

\* The sum of a sequence of numbers.
RECURSIVE SumSeq(_)
SumSeq(q) == IF q = <<>> THEN 0 ELSE q[1] + SumSeq(Tail(q))

\* C14 (as claimed).  Repair is bounded by the loaded ledger: secondPass
\* calls copyFile for the records readBadSectors loaded, each once and in
\* order, and for no other record; when it ends it has called it for all of
\* them and the grand total is the sum of what the calls returned.
C14_RepairBoundedByLoaded ==
  mode = "secondPass" =>
    /\ Len(obs.called) <= obs.loaded
    /\ \A k \in 1..Len(obs.called) : obs.called[k] = badSectorsList[k].file
    /\ pc = "done" => /\ Len(obs.called) = obs.loaded
                      /\ totalMissing = SumSeq(obs.values)

\* A turn of the loop of copyFile ends: size and blk are updated.
TurnEnds == pc \in {"cf_register", "cf_write"} /\ pc' = "cf_loop"

\* C15 (as claimed).  Cursor advance: every turn of the loop moves the cursor
\* by the number of blocks asked for in that turn, whatever the read did.
C15_CursorAdvancesByChunk ==
  [][TurnEnds => cf'.blk = cf.blk + cf.nb]_vars

\* C15 (amended).  Every turn of the loop asks for min(readNumber, size)
\* blocks; it moves the cursor, and lowers the blocks left, by that number
\* when the read failed, and by the number of blocks the read returned when
\* it succeeded.
C15_CursorAdvancesByRead ==
  [][/\ (pc = "cf_loop" /\ pc' \in {"cf_error", "cf_write"})
          => cf'.nb = Min(cf.readNumber, cf.size)
     /\ TurnEnds
          => LET n == IF pc = "cf_register" THEN cf.nb ELSE cf.read
             IN  /\ cf'.blk = cf.blk + n
                 /\ cf'.size = cf.size - n]_vars

\* C15 witness: the first read of a first pass returned one block less than
\* the chunk it asked for, and the turn has ended with the cursor on the
\* block that was not read.
C15_Witness ==
  /\ pc = "cf_loop"
  /\ cf.nb = BUF_BLOCK_SIZE
  /\ cf.read = BUF_BLOCK_SIZE - 1
  /\ cf.blk = BUF_BLOCK_SIZE - 1

\* In the files f, the destination of the descriptor d, which has a dup,
\* exists, and the destination of the dup is missing or is another inode.
Conflict(f, d) ==
  /\ files[d].dup # 0
  /\ f[Path(d)] # 0
  /\ (f[Path(files[d].dup)] = 0 \/ f[Path(files[d].dup)] # f[Path(d)])

\* C16.  Integrity conflict: a copyFile call made in the state of Conflict
\* changes no file, no line of the bad sectors file and no record of the
\* list, and unless the process is killed first it throws: the run is
\* aborted with this descriptor as the last one passed to copyFile, and no
\* other call follows.
C16_IntegrityConflictFatal ==
  (obs.dat # 0 /\ Conflict(atCall.fs, obs.dat))
  => /\ Snapshot = atCall
     /\ Len(badSectorsList) = obs.list0
     /\ pc \in {"cf_entry", "aborted", "killed"}
     /\ pc = "aborted"
          => /\ obs.last = [dat |-> obs.dat, how |-> "throw", value |-> 0]
             /\ obs.called[Len(obs.called)] = obs.dat
             /\ ~ENABLED CopyNext
             /\ ~ENABLED SecondPassNext

\* C16 witness: copy was aborted by the call for the duplicate descriptor 2,
\* whose destination exists while that of its dup does not, with the
\* descriptors after it in the catalog never passed to copyFile.
C16_Witness ==
  /\ mode = "copy"
  /\ pc = "aborted"
  /\ obs.dat = 2
  /\ fs[Path(2)] # 0
  /\ fs[Path(1)] = 0
  /\ obs.called = <<1, 2>>

\* The sequence q ends with the sequence r.
EndsWith(q, r) ==
  /\ Len(r) <= Len(q)
  /\ SubSeq(q, Len(q) - Len(r) + 1, Len(q)) = r

\* What C17 says of the states: a run is only ever aborted by the throw of
\* copyFile; and when readBadSectors has returned, the list is empty if
\* there was no bad sectors file, and it ends with the records of the
\* catalog whose lines registerBadSectors wrote, in order, whatever
\* malformed lines and lines of other discs stand before or between them.
C17_Loaded ==
  /\ pc = "aborted" => obs.last.how = "throw"
  /\ (mode = "secondPass" /\ pc = "sp_loop" /\ i = 0)
       => /\ ~ledger.exists => badSectorsList = <<>>
          /\ EndsWith(badSectorsList, Resolvable(written))

\* C17.  Ledger loading is never fatal: C17_Loaded holds throughout; the
\* loop of readBadSectors is only left by its return to secondPass, or by a
\* kill; and each of its turns consumes a line of the file or finds its end.
C17_LedgerLoadNeverFatal ==
  /\ []C17_Loaded
  /\ [][pc = "rbs_loop"
          => /\ pc' \in {"rbs_loop", "sp_loop", "killed"}
             /\ pc' = "rbs_loop" => rbs'.pos > rbs.pos \/ rbs'.eof]_vars

\* C17 witness: readBadSectors has returned with the two records the first
\* process wrote, from a file that holds a malformed line and the line of
\* another disc before theirs.
C17_Witness ==
  /\ mode = "secondPass"
  /\ pc = "sp_loop"
  /\ i = 0
  /\ Len(ledger.lines) = 4
  /\ ledger.lines[1] = MalformedLine
  /\ ledger.lines[2] = FormatLine(StaleFile, 0, BUF_BLOCK_SIZE)
  /\ Len(badSectorsList) = 2
  /\ badSectorsList[2] = [file |-> 3, start |-> BUF_BLOCK_SIZE,
                          number |-> VobSize - BUF_BLOCK_SIZE]

\* C19 (as claimed).  Copy loop termination: a copyFile call that is not
\* killed returns or throws, whatever its reads return.
C19_CopyFileTerminates == InCopyFile ~> ~InCopyFile

\* The records registerBadSectors has put on badSectorsList since copyFile
\* was last called.
RegisteredByCall ==
  SubSeq(badSectorsList, obs.list0 + 1, Len(badSectorsList))

\* C18.  Skip accounting: when copyFile has returned, of copy or of
\* secondPass, the value it returned is the sum of the block counts of the
\* records registered during the call and the number of blocks the call
\* skipped in the output; it is 0 when the call ended in the duplicate
\* branch, for a part, for a stream that cannot be opened or for a file
\* already fully read.
C18_SkipAccounting ==
  Returned =>
    /\ obs.last.dat = obs.dat
    /\ obs.last.value =
         SumSeq([k \in 1..Len(RegisteredByCall) |-> RegisteredByCall[k].number])
    /\ obs.last.value = obs.holes
    /\ obs.last.how \in {"hardlinking", "linked", "part", "notfound", "complete"}
         => obs.last.value = 0

\* C18 witness: a first pass over the title set has returned the size of the
\* stream after it skipped both chunks and registered a record for each.
C18_Witness ==
  /\ Returned
  /\ obs.last.how = "copied"
  /\ obs.last.value = VobSize
  /\ obs.holes = VobSize
  /\ Len(RegisteredByCall) = 2

\* A record whose line is in the bad sectors file covers block k of the
\* stream of d.
Covered(d, k) ==
  \E j \in 1..Len(written) :
    /\ written[j].file = d
    /\ written[j].start <= k
    /\ k < written[j].start + written[j].number

\* C20 (as claimed).  Crash consistency of skips: at every step, and so
\* whenever the process is killed, each block of an output that is a
\* placeholder is covered by a record whose line is in the bad sectors file.
C20_SkipsCoveredByLedger ==
  \A d \in Files :
    \A k \in 0..(OutFileSize(d) - 1) :
      data[fs[Path(d)]][k + 1] = Hole => Covered(d, k)

====
